---- MODULE Spec2Model ----
(***************************************************************************)
(* A model of the fuzz package: the crisp graph engine (fuzz/graph.py),    *)
(* the indexed set (fuzz/iset.py) and the fuzzy graph layer                *)
(* (fuzz/fgraph.py).                                                       *)
(*                                                                         *)
(* A vertex is an integer; the vertex 0 is the one falsy vertex of the     *)
(* Python code.  A GraphEdge is the pair <<tail, head>>: GraphEdge.__eq__  *)
(* compares tail with tail and head with head, which is equality of pairs, *)
(* so a Python set of edges is a TLA+ set of pairs.                        *)
(***************************************************************************)
EXTENDS Integers, Sequences, FiniteSets, TLC

VARIABLES directed, V, E, wt, S, fV, fE, pre, op, err, ret

vars == <<directed, V, E, wt, S, fV, fE, pre, op, err, ret>>

(***************************************************************************)
(* Bounds and values                                                       *)
(***************************************************************************)
\* the vertices of the crisp graph are 0..MaxVertex
MaxVertex == 2

\* the calls that add an edge stop at MaxEdges stored edges
MaxEdges == 4

Vertices == 0 .. MaxVertex

\* Python's None, the default of the optional tail and head arguments
None == -1

\* float('inf'); every finite distance of the model is far below it
Inf == 1000

NoRet == <<>>

\* a + b on floats, where inf + x = inf
FAdd(a, b) == IF a >= Inf \/ b >= Inf THEN Inf ELSE a + b

\* Python truth value of a vertex reference: None and 0 are false
Truthy(x) == x # None /\ x # 0

RECURSIVE Perms(_)
\* all the orders in which a Python set may be iterated
Perms(s) == IF s = {} THEN {<<>>} ELSE UNION {{<<x>> \o p : p \in Perms(s \ {x})} : x \in s}

Range(q) == {q[i] : i \in 1 .. Len(q)}

(***************************************************************************)
(* GraphEdge                                                               *)
(***************************************************************************)
GraphEdge(tail, head) == <<tail, head>>

\* GraphEdge.__init__ raises ValueError when tail == head
GraphEdgeRaises(tail, head) == tail = head

\* GraphEdge.__contains__
EdgeContains(edge, vertex) == edge[1] = vertex \/ edge[2] = vertex

(***************************************************************************)
(* Graph: a record [directed, V, E] for _directed, _V, _E                  *)
(***************************************************************************)
Self == [directed |-> directed, V |-> V, E |-> E]

\* Graph.edges raises KeyError for a constraint that is no vertex
edges_raises(G, tail, head) == (tail # None /\ tail \notin G.V) \/ (head # None /\ head \notin G.V)

\* Graph.edges: the stored edges matching the constraints, and for an
\* undirected graph also the stored edges matching them reversed
edges(G, tail, head) == {e \in G.E : (tail = None \/ e[1] = tail) /\ (head = None \/ e[2] = head)} \cup (IF G.directed THEN {} ELSE {e \in G.E : (tail = None \/ e[2] = tail) /\ (head = None \/ e[1] = head)})

\* Graph.add_vertex
add_vertex(G, vertex) == [G |-> [G EXCEPT !.V = @ \cup {vertex}], err |-> "none"]

\* add_edge without its duplicate test
add_edge_no_duplicate_test(G, edge) == IF edge[1] \notin G.V \/ edge[2] \notin G.V THEN [G |-> G, err |-> "KeyError"] ELSE [G |-> [G EXCEPT !.E = @ \cup {edge}], err |-> "none"]

\* Graph.add_edge
add_edge(G, edge) == IF edge[1] \notin G.V \/ edge[2] \notin G.V THEN [G |-> G, err |-> "KeyError"] ELSE IF edge \in edges(G, None, None) THEN [G |-> G, err |-> "ValueError"] ELSE [G |-> [G EXCEPT !.E = @ \cup {edge}], err |-> "none"]

\* remove_edge raising KeyError when no edge matches
remove_edge_strict(G, tail, head) == IF edges_raises(G, tail, head) \/ edges(G, tail, head) = {} THEN [G |-> G, err |-> "KeyError"] ELSE [G |-> [G EXCEPT !.E = @ \ edges(G, tail, head)], err |-> "none"]

\* Graph.remove_edge
remove_edge(G, tail, head) == IF edges_raises(G, tail, head) THEN [G |-> G, err |-> "KeyError"] ELSE [G |-> [G EXCEPT !.E = @ \ edges(G, tail, head)], err |-> "none"]

RECURSIVE RemoveVertexLoop(_, _, _)
\* the loop of Graph.remove_vertex over the edges() taken at its start
RemoveVertexLoop(G, todo, vertex) == IF todo = {} THEN [G |-> G, err |-> "none"] ELSE LET edge == CHOOSE e \in todo : TRUE IN IF EdgeContains(edge, vertex) THEN LET r == remove_edge(G, edge[1], edge[2]) IN IF r.err # "none" THEN r ELSE RemoveVertexLoop(r.G, todo \ {edge}, vertex) ELSE RemoveVertexLoop(G, todo \ {edge}, vertex)

\* remove_vertex without the loop over the edges
remove_vertex_keeps_edges(G, vertex) == IF vertex \notin G.V THEN [G |-> G, err |-> "KeyError"] ELSE [G |-> [G EXCEPT !.V = @ \ {vertex}], err |-> "none"]

\* Graph.remove_vertex
remove_vertex(G, vertex) == IF vertex \notin G.V THEN [G |-> G, err |-> "KeyError"] ELSE LET r == RemoveVertexLoop(G, edges(G, None, None), vertex) IN IF r.err # "none" THEN r ELSE [G |-> [r.G EXCEPT !.V = @ \ {vertex}], err |-> "none"]

(***************************************************************************)
(* Weights, adjacency and shortest paths                                   *)
(***************************************************************************)
\* Graph.weight of the base crisp graph
weight(G, tail, head) == IF tail = head THEN 0 ELSE IF GraphEdge(tail, head) \in edges(G, None, None) THEN 1 ELSE Inf

\* self.weight as the algorithms see it: a map over the pairs of vertices
WeightFn(G) == [p \in G.V \X G.V |-> weight(G, p[1], p[2])]

\* Graph.adjacent raises KeyError, out of its call of edges(tail, head), when
\* tail and head differ and one of them is no vertex
adjacent_raises(G, tail, head) == tail # head /\ edges_raises(G, tail, head)

\* Graph.adjacent, where it does not raise
adjacent(G, tail, head) == IF tail = head THEN FALSE ELSE edges(G, tail, head) # {}

\* Graph.neighbors raises KeyError when one of its calls of adjacent does:
\* for a vertex argument that is no vertex of a graph that has a vertex
neighbors_raises(G, vertex) == \E v \in G.V : adjacent_raises(G, vertex, v)

\* Graph.neighbors, where it does not raise
neighbors(G, vertex) == {v \in G.V : adjacent(G, vertex, v)}

RECURSIVE SelectU(_, _, _)
\* the selection loop of dijkstra: q lists Q in iteration order, u starts as None
SelectU(q, dist, u) == IF q = <<>> THEN u ELSE SelectU(Tail(q), dist, IF ~Truthy(u) \/ dist[Head(q)] < dist[u] THEN Head(q) ELSE u)

\* the relaxation loop of dijkstra over neighbors(u); the neighbours differ
\* from u and from each other, so the loop's order does not matter
Relax(G, w, u, dp) == LET N == neighbors(G, u) IN [dist |-> [v \in DOMAIN dp.dist |-> IF v \in N /\ FAdd(dp.dist[u], w[u, v]) < dp.dist[v] THEN FAdd(dp.dist[u], w[u, v]) ELSE dp.dist[v]], prev |-> [v \in DOMAIN dp.prev |-> IF v \in N /\ FAdd(dp.dist[u], w[u, v]) < dp.dist[v] THEN u ELSE dp.prev[v]]]

RECURSIVE DijkstraLoop(_, _, _, _, _)
\* the while loop of dijkstra; ord is the order in which the set Q iterates
DijkstraLoop(G, w, Q, dp, ord) == IF Q = {} THEN dp.prev ELSE LET u == SelectU(SelectSeq(ord, LAMBDA x : x \in Q), dp.dist, None) IN DijkstraLoop(G, w, Q \ {u}, Relax(G, w, u, dp), ord)

\* Graph.dijkstra, for a start that is a vertex: the map prev
dijkstra(G, w, start, ord) == DijkstraLoop(G, w, G.V, [dist |-> [v \in G.V |-> IF v = start THEN 0 ELSE Inf], prev |-> [v \in G.V |-> None]], ord)

RECURSIVE PathWalk(_, _, _, _)
\* the while loop of shortest_path, walking prev back from u
PathWalk(w, prev, u, acc) == IF u \notin DOMAIN prev THEN acc ELSE PathWalk(w, prev, prev[u], [path |-> <<u>> \o acc.path, dist |-> IF Truthy(prev[u]) THEN FAdd(acc.dist, w[prev[u], u]) ELSE acc.dist])

\* shortest_path returning no path and an infinite distance when the walk
\* back from end does not arrive at start
shortest_path_none_when_unreachable(G, w, start, end, ord) == LET r == PathWalk(w, dijkstra(G, w, start, ord), end, [path |-> <<>>, dist |-> 0]) IN IF start # end /\ r.path[1] # start THEN [path |-> <<>>, dist |-> Inf] ELSE r

\* Graph.shortest_path
shortest_path(G, w, start, end, ord) == PathWalk(w, dijkstra(G, w, start, ord), end, [path |-> <<>>, dist |-> 0])

\* Python's min of two floats
Min(a, b) == IF b < a THEN b ELSE a

RECURSIVE FloydLoopJ(_, _, _, _)
\* the innermost loop of floyd_warshall: for j in self.vertices, updating in place
FloydLoopJ(path, k, i, q) == IF q = <<>> THEN path ELSE FloydLoopJ([path EXCEPT ![i][Head(q)] = Min(@, FAdd(path[i][k], path[k][Head(q)]))], k, i, Tail(q))

RECURSIVE FloydLoopI(_, _, _, _)
\* the middle loop of floyd_warshall: for i in self.vertices
FloydLoopI(path, k, q, ord) == IF q = <<>> THEN path ELSE FloydLoopI(FloydLoopJ(path, k, Head(q), ord), k, Tail(q), ord)

RECURSIVE FloydLoopK(_, _, _)
\* the outer loop of floyd_warshall: for k in self.vertices
FloydLoopK(path, q, ord) == IF q = <<>> THEN path ELSE FloydLoopK(FloydLoopI(path, Head(q), ord, ord), Tail(q), ord)

\* floyd_warshall returning the direct weights, without the relaxation loops
floyd_warshall_direct_only(G, w, ord) == [i \in G.V |-> [j \in G.V |-> w[i, j]]]

\* Graph.floyd_warshall: a dict of dicts; ord is the order in which
\* self.vertices iterates
floyd_warshall(G, w, ord) == FloydLoopK([i \in G.V |-> [j \in G.V |-> w[i, j]]], ord, ord)

(***************************************************************************)
(* Connectivity and the minimum spanning tree                              *)
(***************************************************************************)
RECURSIVE ConnectedLoop(_, _, _, _)
\* the while loop of Graph.connected
ConnectedLoop(G, head, D, N) == IF head \in N THEN TRUE ELSE LET P == UNION {neighbors(G, vertex) : vertex \in N} \ (D \cup N) IN IF P = {} THEN FALSE ELSE ConnectedLoop(G, head, D \cup N, P)

\* connected looking at the neighbours of tail only, without the loop
connected_neighbors_only(G, tail, head) == IF tail = head THEN FALSE ELSE head \in neighbors(G, tail)

\* Graph.connected raises KeyError when tail and head differ and
\* neighbors(tail) raises; the later calls of neighbors are on vertices
connected_raises(G, tail, head) == tail # head /\ neighbors_raises(G, tail)

\* Graph.connected, where it does not raise
connected(G, tail, head) == IF tail = head THEN FALSE ELSE ConnectedLoop(G, head, {}, neighbors(G, tail))

RECURSIVE InsertByWeight(_, _, _)
\* one step of the stable sort: x goes behind every element not heavier
InsertByWeight(sorted, x, w) == IF sorted = <<>> THEN <<x>> ELSE IF w[Head(sorted)[1], Head(sorted)[2]] <= w[x[1], x[2]] THEN <<Head(sorted)>> \o InsertByWeight(Tail(sorted), x, w) ELSE <<x>> \o sorted

RECURSIVE SortByWeight(_, _)
\* list.sort by the weight: stable, ascending
SortByWeight(q, w) == IF q = <<>> THEN <<>> ELSE InsertByWeight(SortByWeight(SubSeq(q, 1, Len(q) - 1), w), q[Len(q)], w)

\* edges_by_weight without its sort: the edges in their iteration order
edges_by_weight_unsorted(G, w, tail, head, ord) == ord

\* Graph.edges_by_weight: it lists self.edges(), whatever tail and head are;
\* ord is the order in which that set iterates
edges_by_weight(G, w, tail, head, ord) == SortByWeight(ord, w)

\* Graph.connect
connect(G, tail, head) == IF GraphEdgeRaises(tail, head) THEN [G |-> G, err |-> "ValueError"] ELSE add_edge(G, GraphEdge(tail, head))

\* Graph.disconnect: it builds GraphEdge(tail, head) and passes that one
\* argument to remove_edge(self, tail, head), a call Python refuses with
\* TypeError before remove_edge runs
disconnect(G, tail, head) == IF GraphEdgeRaises(tail, head) THEN [G |-> G, err |-> "ValueError"] ELSE [G |-> G, err |-> "TypeError"]

\* Graph.__init__ with viter and directed, and no eiter
GraphOfVertices(viter, dir) == [directed |-> dir, V |-> viter, E |-> {}]

\* Kruskal's loop adding the edge whether or not its ends are connected
KruskalLoopNoTest(src, T, Q) == [G |-> [T EXCEPT !.E = @ \cup Range(Q)], err |-> "none"]

RECURSIVE KruskalLoop(_, _, _)
\* the while loop of minimum_spanning_tree
KruskalLoop(src, T, Q) == IF Len(Q) # 0 /\ Cardinality(edges(T, None, None)) < Cardinality(edges(src, None, None)) THEN IF ~connected(T, Head(Q)[1], Head(Q)[2]) THEN LET r == add_edge(T, Head(Q)) IN IF r.err # "none" THEN r ELSE KruskalLoop(src, r.G, Tail(Q)) ELSE KruskalLoop(src, T, Tail(Q)) ELSE [G |-> T, err |-> "none"]

\* Graph.minimum_spanning_tree
minimum_spanning_tree(G, w, ord) == IF G.directed THEN [G |-> NoRet, err |-> "NotImplementedError"] ELSE KruskalLoop(G, GraphOfVertices(G.V, FALSE), edges_by_weight(G, w, None, None, ord))

(***************************************************************************)
(* IndexedSet: a Python set of IndexedMember objects.  A member is the     *)
(* record [index, payload]; the payload stands for its mutable fields.  A  *)
(* key is what the caller passes: an index value, [kind |-> "index"], or a *)
(* full item, [kind |-> "item"].                                           *)
(***************************************************************************)
\* the index values are 0..MaxIndex
MaxIndex == 1

\* two payloads tell an entry from the one stored before it
Payloads == {0, 1}

\* an iterable passed to update holds at most MaxIter items
MaxIter == 2

Members == [index : 0 .. MaxIndex, payload : Payloads]

IndexKey(k) == [kind |-> "index", index |-> k, payload |-> 0]

ItemKey(m) == [kind |-> "item", index |-> m.index, payload |-> m.payload]

Keys == {IndexKey(k) : k \in 0 .. MaxIndex} \cup {ItemKey(m) : m \in Members}

Member(key) == [index |-> key.index, payload |-> key.payload]

\* IndexedMember.__eq__ compared on all fields instead of the index
MemberEqWhole(x, y) == x = y

\* IndexedMember.__eq__ (and __hash__): members are equal when their
\* indices are
MemberEq(x, y) == x.index = y.index

\* item.index == key, as __getitem__ and __contains__ test it: an index
\* value never equals a full item (IndexedMember.__eq__ returns False for an
\* object without an index attribute)
IndexEqualsKey(item, key) == key.kind = "index" /\ item.index = key.index

\* set.__contains__: hash and == of the key against the stored members; an
\* index value is equal to no member
SetContains(s, key) == key.kind = "item" /\ \E x \in s : MemberEq(x, Member(key))

\* set.add: an element equal to a stored one is not stored
SetAdd(s, item) == IF \E x \in s : MemberEq(x, item) THEN s ELSE s \cup {item}

\* set.remove: removes the stored element equal to the key, or raises
SetRemove(s, key) == IF SetContains(s, key) THEN [S |-> {x \in s : ~MemberEq(x, Member(key))}, err |-> "none"] ELSE [S |-> s, err |-> "KeyError"]

\* IndexedSet.__getitem__
getitem(s, key) == IF \E item \in s : IndexEqualsKey(item, key) THEN [item |-> CHOOSE item \in s : IndexEqualsKey(item, key), err |-> "none"] ELSE [item |-> NoRet, err |-> "KeyError"]

\* IndexedSet.__contains__
contains(s, key) == (\E item \in s : IndexEqualsKey(item, key)) \/ SetContains(s, key)

\* IndexedSet.add; copy(item) is the same record
add(s, item) == [S |-> SetAdd(s, item), err |-> "none"]

RECURSIVE update(_, _)
\* IndexedSet.update
update(s, iterable) == IF iterable = <<>> THEN [S |-> s, err |-> "none"] ELSE update(add(s, Head(iterable)).S, Tail(iterable))

\* remove without the fallback to set.remove(self, key)
remove_by_index_only(s, key) == LET g == getitem(s, key) IN IF g.err = "none" THEN SetRemove(s, ItemKey(g.item)) ELSE [S |-> s, err |-> "KeyError"]

\* IndexedSet.remove
remove(s, key) == LET g == getitem(s, key) IN IF g.err = "none" THEN SetRemove(s, ItemKey(g.item)) ELSE SetRemove(s, key)

\* IndexedSet.__setitem__, the key an index value
setitem(s, key, item) == IF ~(key.kind = "index" /\ item.index = key.index) THEN [S |-> s, err |-> "ValueError"] ELSE IF contains(s, key) THEN LET r == remove(s, key) IN IF r.err # "none" THEN r ELSE [S |-> SetAdd(r.S, item), err |-> "none"] ELSE [S |-> SetAdd(s, item), err |-> "none"]

\* IndexedSet.keys; ord is the order in which the set iterates
keys(ord) == [i \in 1 .. Len(ord) |-> ord[i].index]

\* IndexedSet.has_key
has_key(ord, key) == key \in Range(keys(ord))

(***************************************************************************)
(* FuzzyGraph: _V and _E are fuzzy sets, sets of elements [obj, mu]; a     *)
(* membership degree is counted in tenths (5 is 0.5, 10 is 1.0).  The      *)
(* fuzzy set itself (fuzz/fset.py) is modelled from its contract.          *)
(***************************************************************************)
\* FuzzyElement
FuzzyElement(obj, mu) == [obj |-> obj, mu |-> mu]

\* FuzzySet.objects: the wrapped objects
FuzzySetObjects(fs) == {x.obj : x \in fs}

\* FuzzySet.alpha: the objects whose degree meets the threshold
FuzzySetAlpha(fs, a) == {x.obj : x \in {y \in fs : y.mu >= a}}

\* FuzzySet.salpha: the objects whose degree exceeds the threshold
FuzzySetSalpha(fs, a) == {x.obj : x \in {y \in fs : y.mu > a}}

\* FuzzySet.add of an element whose object the set does not hold
FuzzySetAdd(fs, element) == fs \cup {element}

FuzzySelf == [directed |-> directed, V |-> fV, E |-> fE]

\* FuzzyGraph.vertices
fuzzy_vertices(F) == FuzzySetObjects(F.V)

\* FuzzyGraph.edges raises KeyError for a constraint that is no vertex
fuzzy_edges_raises(F, tail, head) == (tail # None /\ tail \notin fuzzy_vertices(F)) \/ (head # None /\ head \notin fuzzy_vertices(F))

\* FuzzyGraph.edges, where it does not raise: the wrapped edges matching the
\* constraints
fuzzy_edges(F, tail, head) == {e.obj : e \in {x \in F.E : (tail = None \/ x.obj[1] = tail) /\ (head = None \/ x.obj[2] = head)}} \cup (IF F.directed THEN {} ELSE {e.obj : e \in {x \in F.E : (tail = None \/ x.obj[2] = tail) /\ (head = None \/ x.obj[1] = head)}})

\* FuzzyGraph.add_edge
fuzzy_add_edge(F, edge) == IF edge.obj[1] \notin fuzzy_vertices(F) \/ edge.obj[2] \notin fuzzy_vertices(F) THEN [G |-> F, err |-> "KeyError"] ELSE IF edge.obj \in fuzzy_edges(F, None, None) THEN [G |-> F, err |-> "ValueError"] ELSE [G |-> [F EXCEPT !.E = FuzzySetAdd(@, edge)], err |-> "none"]

\* membership in a FuzzySet: the set is keyed by the wrapped object
FuzzySetContains(fs, obj) == obj \in FuzzySetObjects(fs)

\* FuzzySet.remove of the element that wraps obj
FuzzySetRemove(fs, obj) == {x \in fs : x.obj # obj}

\* FuzzySet.add of an element whose object the set holds already: there is
\* still one element for the object, the held one or the new one
FuzzySetAddHeld(fs, element, replace) == IF replace THEN FuzzySetRemove(fs, element.obj) \cup {element} ELSE fs

\* FuzzySet.normalize: the degrees rescaled so that the largest becomes 1.0,
\* which is 10 in the tenths the model counts degrees in; an empty set stays
\* empty
FuzzySetNormalize(fs) == IF fs = {} THEN fs ELSE LET height == CHOOSE m \in {x.mu : x \in fs} : \A x \in fs : x.mu <= m IN {FuzzyElement(x.obj, (x.mu * 10) \div height) : x \in fs}

\* Graph.add_vertex as FuzzyGraph inherits it, given a FuzzyElement
fuzzy_add_vertex(F, vertex, replace) == [G |-> [F EXCEPT !.V = IF FuzzySetContains(@, vertex.obj) THEN FuzzySetAddHeld(@, vertex, replace) ELSE FuzzySetAdd(@, vertex)], err |-> "none"]

\* FuzzyGraph.add_fuzzy_vertex
add_fuzzy_vertex(F, vertex, mu, replace) == fuzzy_add_vertex(F, FuzzyElement(vertex, mu), replace)

\* Graph.remove_edge as FuzzyGraph inherits it: self.edges is FuzzyGraph.edges
fuzzy_remove_edge(F, tail, head) == IF fuzzy_edges_raises(F, tail, head) THEN [G |-> F, err |-> "KeyError"] ELSE [G |-> [F EXCEPT !.E = {x \in @ : x.obj \notin fuzzy_edges(F, tail, head)}], err |-> "none"]

RECURSIVE FuzzyRemoveVertexLoop(_, _, _)
\* the loop of the inherited remove_vertex over the edges() taken at its start
FuzzyRemoveVertexLoop(F, todo, vertex) == IF todo = {} THEN [G |-> F, err |-> "none"] ELSE LET edge == CHOOSE e \in todo : TRUE IN IF EdgeContains(edge, vertex) THEN LET r == fuzzy_remove_edge(F, edge[1], edge[2]) IN IF r.err # "none" THEN r ELSE FuzzyRemoveVertexLoop(r.G, todo \ {edge}, vertex) ELSE FuzzyRemoveVertexLoop(F, todo \ {edge}, vertex)

\* Graph.remove_vertex as FuzzyGraph inherits it
fuzzy_remove_vertex(F, vertex) == IF ~FuzzySetContains(F.V, vertex) THEN [G |-> F, err |-> "KeyError"] ELSE LET r == FuzzyRemoveVertexLoop(F, fuzzy_edges(F, None, None), vertex) IN IF r.err # "none" THEN r ELSE [G |-> [r.G EXCEPT !.V = FuzzySetRemove(@, vertex)], err |-> "none"]

\* FuzzyGraph.normalize
normalize(F) == [G |-> [F EXCEPT !.V = FuzzySetNormalize(@), !.E = FuzzySetNormalize(@)], err |-> "none"]

\* FuzzyGraph.connect: GraphEdge(tail, head) is built first
fuzzy_connect(F, tail, head, mu) == IF GraphEdgeRaises(tail, head) THEN [G |-> F, err |-> "ValueError"] ELSE fuzzy_add_edge(F, FuzzyElement(GraphEdge(tail, head), mu))

RECURSIVE GraphAddEdges(_, _)
\* the loop of Graph.__init__ over eiter
GraphAddEdges(G, eiter) == IF eiter = {} THEN [G |-> G, err |-> "none"] ELSE LET edge == CHOOSE e \in eiter : TRUE r == add_edge(G, edge) IN IF r.err # "none" THEN r ELSE GraphAddEdges(r.G, eiter \ {edge})

\* Graph.__init__ with viter, eiter and directed
GraphOf(viter, eiter, dir) == GraphAddEdges(GraphOfVertices(viter, dir), eiter)

\* alpha without the test of the edge's tail and head
alpha_keeps_cut_ends(F, a) == GraphOf(FuzzySetAlpha(F.V, a), FuzzySetAlpha(F.E, a), F.directed)

\* FuzzyGraph.alpha
alpha(F, a) == LET Va == FuzzySetAlpha(F.V, a) IN GraphOf(Va, {edge \in FuzzySetAlpha(F.E, a) : edge[1] \in Va /\ edge[2] \in Va}, F.directed)

\* FuzzyGraph.salpha
salpha(F, a) == LET Va == FuzzySetSalpha(F.V, a) IN GraphOf(Va, {edge \in FuzzySetSalpha(F.E, a) : edge[1] \in Va /\ edge[2] \in Va}, F.directed)

\* Graph.issubgraph
issubgraph(G, other) == G.V \subseteq other.V /\ G.E \subseteq other.E

(***************************************************************************)
(* The crisp graph under its mutating calls                                *)
(***************************************************************************)
Call(name, a, b) == [name |-> name, a |-> a, b |-> b]

Snapshot == [V |-> V, E |-> E]

RestUnchanged == UNCHANGED <<wt, S, fV, fE>>

\* the outcome r = [G, err] of a mutating call becomes the state
Mutate(r, call) == /\ V' = r.G.V /\ E' = r.G.E /\ err' = r.err /\ op' = call /\ pre' = Snapshot /\ ret' = NoRet /\ UNCHANGED directed /\ RestUnchanged

AddVertex == \E v \in Vertices : Mutate(add_vertex(Self, v), Call("add_vertex", v, None))

RemoveVertex == \E v \in Vertices : Mutate(remove_vertex(Self, v), Call("remove_vertex", v, None))

AddEdge == \E t \in Vertices, h \in Vertices : ~GraphEdgeRaises(t, h) /\ Cardinality(E) < MaxEdges /\ Mutate(add_edge(Self, GraphEdge(t, h)), Call("add_edge", t, h))

RemoveEdge == \E t \in Vertices \cup {None}, h \in Vertices \cup {None} : Mutate(remove_edge(Self, t, h), Call("remove_edge", t, h))

\* the outcome of a call that reads the graph
Query(value, call) == /\ ret' = value /\ err' = "none" /\ op' = call /\ pre' = Snapshot /\ UNCHANGED <<directed, V, E>> /\ RestUnchanged

ShortestPath == \E start \in V, end \in V, ord \in Perms(V) : Query(shortest_path(Self, WeightFn(Self), start, end, ord), Call("shortest_path", start, end))

Init == /\ directed \in BOOLEAN /\ V = {} /\ E = {} /\ wt = <<>> /\ S = {} /\ fV = {} /\ fE = {} /\ pre = [V |-> {}, E |-> {}] /\ op = Call("init", None, None) /\ err = "none" /\ ret = NoRet

Next == AddVertex \/ RemoveVertex \/ AddEdge \/ RemoveEdge

Spec == Init /\ [][Next]_vars

FloydWarshall == \E ord \in Perms(V) : Query(floyd_warshall(Self, WeightFn(Self), ord), Call("floyd_warshall", None, None))

\* the outcome of a call that reads the graph and raises
QueryRaises(error, call) == /\ ret' = NoRet /\ err' = error /\ op' = call /\ pre' = Snapshot /\ UNCHANGED <<directed, V, E>> /\ RestUnchanged

Connected == \E tail \in Vertices, head \in Vertices : IF connected_raises(Self, tail, head) THEN QueryRaises("KeyError", Call("connected", tail, head)) ELSE Query(connected(Self, tail, head), Call("connected", tail, head))

\* edges_by_weight leaves the graph as it is, so a second call right after
\* one reaches no state that the first does not
EdgesByWeight == op.name # "edges_by_weight" /\ \E tail \in Vertices \cup {None}, head \in Vertices \cup {None}, ord \in Perms(edges(Self, None, None)) : Query(edges_by_weight(Self, WeightFn(Self), tail, head, ord), Call("edges_by_weight", tail, head))

Connect == \E tail \in Vertices, head \in Vertices : Cardinality(E) < MaxEdges /\ Mutate(connect(Self, tail, head), Call("connect", tail, head))

Disconnect == \E tail \in Vertices, head \in Vertices : Mutate(disconnect(Self, tail, head), Call("disconnect", tail, head))

\* the crisp graph under its convenience calls and its sorted edge list
NextEdges == AddVertex \/ Connect \/ Disconnect \/ EdgesByWeight

SpecEdges == Init /\ [][NextEdges]_vars

\* the crisp graph under its mutating calls and its queries
NextAlg == AddVertex \/ RemoveVertex \/ AddEdge \/ RemoveEdge \/ ShortestPath \/ FloydWarshall \/ Connected

SpecAlg == Init /\ [][NextAlg]_vars

(***************************************************************************)
(* Properties of the crisp graph                                           *)
(***************************************************************************)
\* the graph as it was before the last call
PreG == [directed |-> directed, V |-> pre.V, E |-> pre.E]

AllEdges == edges(Self, None, None)

\* C1: every stored edge has its tail and its head in the vertex set, and
\* right after a successful remove_vertex(v) no edge of edges() contains v.
C1_NoDanglingEdge ==
    /\ \A e \in E : e[1] \in V /\ e[2] \in V
    /\ (op.name = "remove_vertex" /\ err = "none") => (op.a \notin V /\ \A e \in AllEdges : ~EdgeContains(e, op.a))

\* remove_vertex(v) succeeded on a vertex that had edges, and other edges stay
C1_Witness == op.name = "remove_vertex" /\ err = "none" /\ (\E e \in pre.E : EdgeContains(e, op.a)) /\ E # {}

\* C2: add_edge(e) with both endpoints vertices and e not yet an edge makes
\* e a member of edges(); add_edge(e) with e already an edge raises
\* ValueError and leaves the vertices and the edges as they were.
C2_AddEdgeThenDuplicate == op.name = "add_edge" => LET e == GraphEdge(op.a, op.b) IN
    /\ (e[1] \in pre.V /\ e[2] \in pre.V /\ e \notin edges(PreG, None, None)) => (err = "none" /\ e \in AllEdges /\ V = pre.V)
    /\ (e \in edges(PreG, None, None)) => (err = "ValueError" /\ V = pre.V /\ E = pre.E)

\* a second add_edge(e) was refused
C2_Witness == op.name = "add_edge" /\ err = "ValueError" /\ GraphEdge(op.a, op.b) \in E

\* C3 (as claimed): in an undirected graph, (a, b) is a member of edges() if
\* and only if (b, a) is.
C3_UndirectedSymmetric == ~directed => \A a \in V, b \in V : a # b => (GraphEdge(a, b) \in AllEdges <=> GraphEdge(b, a) \in AllEdges)

\* whether a stored edge matches (tail, head): None matches anything, and
\* in an undirected graph the reversed edge matches too
Matches(e, tail, head) ==
    \/ (tail = None \/ e[1] = tail) /\ (head = None \/ e[2] = head)
    \/ ~directed /\ (tail = None \/ e[2] = tail) /\ (head = None \/ e[1] = head)

\* C4 (as claimed): remove_edge(tail, head) never raises, whether or not
\* tail and head are vertices; it removes exactly the matching edges, and
\* nothing when none matches.
C4_RemoveEdgeNeverRaises == op.name = "remove_edge" => (err = "none" /\ V = pre.V /\ E = {e \in pre.E : ~Matches(e, op.a, op.b)})

\* C4 (amended): when tail and head are each omitted or a vertex of the
\* graph, remove_edge(tail, head) raises nothing and removes exactly the
\* matching edges (nothing when none matches); when tail or head is given
\* and is no vertex, it raises KeyError and leaves the graph as it was.
C4_RemoveEdge == op.name = "remove_edge" => IF (op.a = None \/ op.a \in pre.V) /\ (op.b = None \/ op.b \in pre.V) THEN err = "none" /\ V = pre.V /\ E = {e \in pre.E : ~Matches(e, op.a, op.b)} ELSE err = "KeyError" /\ V = pre.V /\ E = pre.E

\* remove_edge removed the two orientations of an undirected edge and
\* left another edge
C4_Witness == op.name = "remove_edge" /\ err = "none" /\ ~directed /\ GraphEdge(op.a, op.b) \in pre.E /\ GraphEdge(op.b, op.a) \in pre.E /\ E # {} /\ Cardinality(E) + 2 = Cardinality(pre.E)

\* C8 (as claimed): in an undirected graph, two distinct vertices joined by
\* an edge stored in either orientation have the shortest path
\* ([start, end], 1); two vertices not joined but both joined to a third
\* vertex have the shortest path ([start, third, end], 2).
C8_UndirectedShortestPath == (op.name = "shortest_path" /\ ~directed /\ op.a # op.b) => LET a == op.a b == op.b joined(x, y) == GraphEdge(x, y) \in E \/ GraphEdge(y, x) \in E IN
    /\ joined(a, b) => ret = [path |-> <<a, b>>, dist |-> 1]
    /\ (~joined(a, b) /\ Cardinality(V) = 3) => \A c \in V \ {a, b} : (joined(a, c) /\ joined(c, b)) => ret = [path |-> <<a, c, b>>, dist |-> 2]

\* the vertex sequences from i to j that repeat no vertex; with weights
\* that are not negative, no other sequence is cheaper
SequencesFromTo(i, j) == {s \in UNION {[1 .. n -> V] : n \in 1 .. Cardinality(V)} : s[1] = i /\ s[Len(s)] = j /\ \A m \in 1 .. Len(s), n \in 1 .. Len(s) : m # n => s[m] # s[n]}

RECURSIVE SequenceWeight(_)
\* the sum of weight() over the consecutive vertices of s
SequenceWeight(s) == IF Len(s) < 2 THEN 0 ELSE FAdd(weight(Self, s[1], s[2]), SequenceWeight(Tail(s)))

\* the least weight of a vertex sequence from i to j
Distance(i, j) == LET sums == {SequenceWeight(s) : s \in SequencesFromTo(i, j)} IN CHOOSE d \in sums : \A x \in sums : d <= x

\* C11: floyd_warshall() returns a mapping defined for every ordered pair
\* of vertices (i, j); its value is the minimum, over the vertex sequences
\* from i to j, of the sum of weight() over consecutive vertices, +infinity
\* when there is none, and the value for (v, v) is 0.
C11_FloydWarshall == op.name = "floyd_warshall" =>
    /\ DOMAIN ret = V
    /\ \A i \in V : DOMAIN ret[i] = V /\ ret[i][i] = 0
    /\ \A i \in V, j \in V : ret[i][j] = Distance(i, j)

\* floyd_warshall found a distance of 2 that no single edge gives, and an
\* infinite one
C11_Witness == op.name = "floyd_warshall" /\ \E i \in V, j \in V, k \in V : ret[i][j] = 2 /\ weight(Self, i, j) = Inf /\ ret[j][i] = Inf /\ ret[k][k] = 0

\* C12 (as claimed): edges_by_weight(tail, head) returns a list holding
\* exactly the edges of edges(tail, head), each once, in an order along
\* which weight(edge.tail, edge.head) never decreases; with both
\* constraints omitted it lists all the edges.
C12_EdgesByWeight == (op.name = "edges_by_weight" /\ ~edges_raises(Self, op.a, op.b)) =>
    /\ Range(ret) = edges(Self, op.a, op.b)
    /\ Len(ret) = Cardinality(Range(ret))
    /\ \A m \in 1 .. Len(ret), n \in 1 .. Len(ret) : m < n => weight(Self, ret[m][1], ret[m][2]) <= weight(Self, ret[n][1], ret[n][2])

\* C13 (as claimed): on a graph holding an edge from tail to head,
\* disconnect(tail, head) completes without error, and afterwards that
\* edge is not in edges(), with every other edge and every vertex unchanged.
C13_Disconnect == (op.name = "disconnect" /\ GraphEdge(op.a, op.b) \in pre.E) => (err = "none" /\ GraphEdge(op.a, op.b) \notin AllEdges /\ V = pre.V /\ E = pre.E \ {GraphEdge(op.a, op.b)})

\* the steps a path may take: each stored edge from its tail to its head,
\* and in an undirected graph from its head to its tail as well
EdgeSteps == E \cup (IF directed THEN {} ELSE {<<e[2], e[1]>> : e \in E})

RECURSIVE StepsClosure(_)
\* the vertices of seen and all that some sequence of steps reaches from them
StepsClosure(seen) == LET more == seen \cup {e[2] : e \in {x \in EdgeSteps : x[1] \in seen}} IN IF more = seen THEN seen ELSE StepsClosure(more)

\* a sequence of one or more edges leads from a to b
LeadsTo(a, b) == b \in StepsClosure({e[2] : e \in {x \in EdgeSteps : x[1] = a}})

\* C14: for vertices tail and head of the graph, connected(tail, head)
\* returns true if and only if tail # head and a sequence of one or more
\* edges leads from tail to head (followed tail-to-head in a directed graph,
\* in either direction in an undirected one); connected(v, v) is false even
\* when v lies on a cycle.
C14_Connected == (op.name = "connected" /\ op.a \in V /\ op.b \in V) =>
    /\ err = "none"
    /\ ret = (op.a # op.b /\ LeadsTo(op.a, op.b))
    /\ op.a = op.b => ret = FALSE

\* connected found a head that is no neighbour of tail but lies behind one,
\* in a directed graph where tail is on a cycle
C14_Witness == op.name = "connected" /\ err = "none" /\ ret = TRUE /\ directed /\ GraphEdge(op.a, op.b) \notin E /\ LeadsTo(op.a, op.a)

\* C15 (as claimed): in a directed graph, whose vertices may be any
\* integers, 0 included, for start # end with connected(start, end) true,
\* shortest_path(start, end) returns a path that begins with start, ends
\* with end and joins each consecutive pair by an edge, and a distance that
\* is the sum of weight() over the consecutive pairs of that path and
\* equals floyd_warshall()[start][end].
C15_DirectedShortestPath == (op.name = "shortest_path" /\ directed /\ op.a # op.b /\ connected(Self, op.a, op.b)) =>
    /\ Len(ret.path) >= 2 /\ ret.path[1] = op.a /\ ret.path[Len(ret.path)] = op.b
    /\ \A n \in 1 .. Len(ret.path) - 1 : GraphEdge(ret.path[n], ret.path[n + 1]) \in E
    /\ ret.dist = SequenceWeight(ret.path)
    /\ \A ord \in Perms(V) : ret.dist = floyd_warshall(Self, WeightFn(Self), ord)[op.a][op.b]

\* C16 (as claimed): in an undirected graph, for all vertices a # b,
\* weight(a, b) is 1 exactly when adjacent(a, b) is true (an edge is stored
\* in either orientation) and +infinity otherwise, so that
\* weight(a, b) = weight(b, a) and floyd_warshall()[a][b] =
\* floyd_warshall()[b][a].
C16_UndirectedWeight == ~directed => \A a \in V, b \in V : a # b =>
    /\ weight(Self, a, b) = (IF adjacent(Self, a, b) THEN 1 ELSE Inf)
    /\ weight(Self, a, b) = weight(Self, b, a)
    /\ \A ord \in Perms(V) : floyd_warshall(Self, WeightFn(Self), ord)[a][b] = floyd_warshall(Self, WeightFn(Self), ord)[b][a]

\* C17: for vertices start # end such that end is not reachable from
\* start, shortest_path(start, end) raises no error and returns the
\* one-vertex path [end] with distance 0, in which start does not appear;
\* shortest_path(start, start) returns ([start], 0).
C17_UnreachableShortestPath == op.name = "shortest_path" =>
    /\ err = "none"
    /\ (op.a # op.b /\ ~LeadsTo(op.a, op.b)) => (ret = [path |-> <<op.b>>, dist |-> 0] /\ op.a \notin Range(ret.path))
    /\ op.a = op.b => ret = [path |-> <<op.a>>, dist |-> 0]

\* shortest_path was asked for an end that start does not reach, while
\* start has an edge to another vertex and end reaches start
C17_Witness == op.name = "shortest_path" /\ op.a # op.b /\ ~LeadsTo(op.a, op.b) /\ LeadsTo(op.b, op.a) /\ (\E e \in E : e[1] = op.a) /\ ret.path = <<op.b>> /\ ret.dist = 0

(***************************************************************************)
(* The indexed set under its calls                                         *)
(***************************************************************************)
ISetStep(r, value, call) == /\ S' = r.S /\ err' = r.err /\ ret' = value /\ op' = call /\ pre' = S /\ UNCHANGED <<directed, V, E, wt, fV, fE>>

Iterables == UNION {[1 .. n -> Members] : n \in 0 .. MaxIter}

ISetAdd == \E item \in Members : ISetStep(add(S, item), NoRet, Call("add", item, None))

ISetUpdate == \E iterable \in Iterables : ISetStep(update(S, iterable), NoRet, Call("update", iterable, None))

ISetSetItem == \E k \in 0 .. MaxIndex, item \in Members : ISetStep(setitem(S, IndexKey(k), item), NoRet, Call("setitem", IndexKey(k), item))

ISetRemove == \E key \in Keys : ISetStep(remove(S, key), NoRet, Call("remove", key, None))

ISetGetItem == \E key \in Keys : ISetStep([S |-> S, err |-> getitem(S, key).err], getitem(S, key).item, Call("getitem", key, None))

ISetContains == \E key \in Keys : ISetStep([S |-> S, err |-> "none"], contains(S, key), Call("contains", key, None))

ISetKeys == \E ord \in Perms(S) : ISetStep([S |-> S, err |-> "none"], keys(ord), Call("keys", None, None))

InitISet == /\ directed = TRUE /\ V = {} /\ E = {} /\ wt = <<>> /\ S = {} /\ fV = {} /\ fE = {} /\ pre = {} /\ op = Call("init", None, None) /\ err = "none" /\ ret = NoRet

NextISet == ISetAdd \/ ISetUpdate \/ ISetSetItem \/ ISetRemove \/ ISetGetItem \/ ISetContains \/ ISetKeys

SpecISet == InitISet /\ [][NextISet]_vars

(***************************************************************************)
(* Properties of the indexed set                                           *)
(***************************************************************************)
\* the entries of s with the index of the key
Holding(s, key) == {x \in s : x.index = key.index}

\* C5 (as claimed): add(item) on a set that holds an entry with the index
\* of item raises nothing and replaces the entry: the entry found under that
\* index afterwards carries the payload of item.
C5_AddLastWriteWins == (op.name = "add" /\ Holding(pre, op.a) # {}) => (err = "none" /\ getitem(S, IndexKey(op.a.index)).err = "none" /\ getitem(S, IndexKey(op.a.index)).item.payload = op.a.payload)

\* C6 (as claimed): lookup, containment test and remove each take an index
\* value or a full item; they find the entry with that index when the set
\* holds one, and lookup and remove raise KeyError and change nothing when
\* it holds none.
C6_KeyOrItem ==
    /\ op.name = "getitem" => (S = pre /\ IF Holding(pre, op.a) # {} THEN err = "none" /\ ret \in Holding(pre, op.a) ELSE err = "KeyError")
    /\ op.name = "contains" => (S = pre /\ ret = (Holding(pre, op.a) # {}))
    /\ op.name = "remove" => IF Holding(pre, op.a) # {} THEN err = "none" /\ S = pre \ Holding(pre, op.a) ELSE err = "KeyError" /\ S = pre

\* C6 (amended): the containment test and remove each take an index value
\* or a full item, and lookup takes an index value: they find the entry with
\* that index when the set holds one, and lookup and remove raise KeyError
\* and change nothing when it holds none; lookup with a full item as key
\* raises KeyError whether or not the set holds an entry with its index.
C6_KeyOrItemLookupByIndex ==
    /\ op.name = "getitem" => (S = pre /\ IF op.a.kind = "index" /\ Holding(pre, op.a) # {} THEN err = "none" /\ ret \in Holding(pre, op.a) ELSE err = "KeyError")
    /\ op.name = "contains" => (S = pre /\ ret = (Holding(pre, op.a) # {}))
    /\ op.name = "remove" => IF Holding(pre, op.a) # {} THEN err = "none" /\ S = pre \ Holding(pre, op.a) /\ Cardinality(S) + 1 = Cardinality(pre) ELSE err = "KeyError" /\ S = pre

\* remove was given a full item whose payload differs from the stored
\* entry's, and removed that entry and no other
C6_Witness == op.name = "remove" /\ op.a.kind = "item" /\ err = "none" /\ Member(op.a) \notin pre /\ S # {}

\* C7: the set holds at most one entry per index value, and keys() lists
\* each stored index exactly once.
C7_OneEntryPerIndex ==
    /\ \A x \in S, y \in S : x.index = y.index => x = y
    /\ op.name = "keys" => (Len(ret) = Cardinality(S) /\ Range(ret) = {x.index : x \in S} /\ \A i \in 1 .. Len(ret), j \in 1 .. Len(ret) : ret[i] = ret[j] => i = j)

\* update was given two items of one index and different payloads, and the
\* set holds two entries
C7_Witness == op.name = "update" /\ Len(op.a) = 2 /\ op.a[1].index = op.a[2].index /\ op.a[1] # op.a[2] /\ Cardinality(S) = 2

(***************************************************************************)
(* The minimum spanning tree of a weighted graph.  The weights come from a *)
(* subclass overriding weight(): wt maps a pair of vertices to the weight  *)
(* the subclass returns, the same for (a, b) and (b, a).                   *)
(***************************************************************************)
TreeVertices == {1, 2, 3, 4}

\* the weights a subclass gives its edges
Weights == {1, 5}

\* the graphs given to minimum_spanning_tree hold at most MaxTreeEdges
\* edges, or are the example graph
MaxTreeEdges == 3

ExampleEdges == {<<1, 2>>, <<2, 3>>, <<3, 4>>, <<1, 4>>}

TreePairs == {p \in TreeVertices \X TreeVertices : p[1] < p[2]}

Unordered(a, b) == IF a < b THEN <<a, b>> ELSE <<b, a>>

\* the weight map of a subclass that gives the pair p the weight f[p]
SymmetricWeight(f) == [p \in TreeVertices \X TreeVertices |-> IF p[1] = p[2] THEN 0 ELSE f[Unordered(p[1], p[2])]]

RECURSIVE EdgeSets(_, _)
\* the sets of at most n edges taken from pairs
EdgeSets(pairs, n) == IF n = 0 \/ pairs = {} THEN {{}} ELSE LET p == CHOOSE x \in pairs : TRUE IN EdgeSets(pairs \ {p}, n) \cup {es \cup {p} : es \in EdgeSets(pairs \ {p}, n - 1)}

\* an undirected graph on TreeVertices, built by add_vertex and add_edge,
\* with the weights of its subclass; a pair without an edge has no weight
\* of interest and gets 1
InitTree ==
    /\ directed = FALSE /\ V = TreeVertices /\ E \in EdgeSets({p \in V \X V : p[1] # p[2]}, MaxTreeEdges) \cup {ExampleEdges}
    /\ \E f \in [TreePairs -> Weights] : (\A p \in TreePairs : (p \notin E /\ <<p[2], p[1]>> \notin E) => f[p] = 1) /\ wt = SymmetricWeight(f)
    /\ S = {} /\ fV = {} /\ fE = {} /\ pre = [V |-> V, E |-> E] /\ op = Call("init", None, None) /\ err = "none" /\ ret = NoRet

MinimumSpanningTree == \E ord \in Perms(edges(Self, None, None)) : LET r == minimum_spanning_tree(Self, wt, ord) IN /\ ret' = r.G /\ err' = r.err /\ op' = Call("minimum_spanning_tree", None, None) /\ pre' = Snapshot /\ UNCHANGED <<directed, V, E, wt, S, fV, fE>>

NextTree == MinimumSpanningTree

SpecTree == InitTree /\ [][NextTree]_vars

(***************************************************************************)
(* The crisp graph built by its constructor and then queried               *)
(***************************************************************************)
\* Graph(viter, eiter, directed): the vertices of viter, then the edges of
\* eiter, each between two of these vertices; any such set of edges can be
\* stored, in an undirected graph too, where add_edge tests the orientation
\* it is given
InitQuery ==
    /\ directed \in BOOLEAN /\ V \in SUBSET Vertices /\ E \in EdgeSets({p \in V \X V : p[1] # p[2]}, MaxEdges)
    /\ wt = <<>> /\ S = {} /\ fV = {} /\ fE = {} /\ pre = [V |-> V, E |-> E] /\ op = Call("init", None, None) /\ err = "none" /\ ret = NoRet

\* one query on the constructed graph; a query leaves the graph as it is,
\* so the queries after a query reach no state that this one does not
NextQuery == op.name = "init" /\ (ShortestPath \/ FloydWarshall \/ Connected)

SpecQuery == InitQuery /\ [][NextQuery]_vars

(***************************************************************************)
(* Properties of the minimum spanning tree                                 *)
(***************************************************************************)
\* the edges es read in both directions
Symmetric(es) == es \cup {<<e[2], e[1]>> : e \in es}

RECURSIVE ReachFrom(_, _)
\* the vertices joined to one of seen by a sequence of the edges es
ReachFrom(seen, es) == LET more == seen \cup {e[2] : e \in {x \in Symmetric(es) : x[1] \in seen}} IN IF more = seen THEN seen ELSE ReachFrom(more, es)

\* whether a sequence of one or more of the edges es joins a and b
Joined(es, a, b) == a # b /\ b \in ReachFrom({a}, es)

Components(vs, es) == {ReachFrom({a}, es) : a \in vs}

\* an undirected graph without a cycle: no pair is joined twice, and the
\* edges are as many as the vertices less the components
Acyclic(vs, es) ==
    /\ \A e \in es : <<e[2], e[1]>> \notin es
    /\ Cardinality(es) + Cardinality(Components(vs, es)) = Cardinality(vs)

RECURSIVE TotalWeight(_, _)
TotalWeight(es, w) == IF es = {} THEN 0 ELSE LET e == CHOOSE x \in es : TRUE IN w[e[1], e[2]] + TotalWeight(es \ {e}, w)

\* the spanning forests of the graph: the acyclic sets of its edges that
\* connect what it connects
SpanningForests(vs, es) == {f \in SUBSET es : Acyclic(vs, f) /\ Components(vs, f) = Components(vs, es)}

\* the example graph: (1,2), (2,3), (3,4) of weight 1 and (1,4) of weight 5
ExampleGraph ==
    /\ ~directed /\ E = ExampleEdges
    /\ wt[1, 2] = 1 /\ wt[2, 3] = 1 /\ wt[3, 4] = 1 /\ wt[1, 4] = 5

\* C9: for an undirected graph with symmetric non-negative weights,
\* minimum_spanning_tree() returns an undirected graph on the same vertices,
\* made of edges of the graph, that is acyclic, connects two vertices
\* exactly when the graph connects them, and weighs the least of all the
\* spanning forests of the graph; for the example graph it holds (1,2),
\* (2,3), (3,4) and not (1,4).
C9_MinimumSpanningTree == (op.name = "minimum_spanning_tree" /\ ~directed) =>
    /\ err = "none" /\ ~ret.directed /\ ret.V = V /\ ret.E \subseteq E
    /\ Acyclic(V, ret.E)
    /\ \A a \in V, b \in V : Joined(ret.E, a, b) <=> Joined(E, a, b)
    /\ \A f \in SpanningForests(V, E) : TotalWeight(ret.E, wt) <= TotalWeight(f, wt)
    /\ ExampleGraph => ret.E = {<<1, 2>>, <<2, 3>>, <<3, 4>>}

\* the tree of the example graph was computed
C9_Witness == op.name = "minimum_spanning_tree" /\ ExampleGraph /\ err = "none" /\ <<1, 4>> \notin ret.E

(***************************************************************************)
(* The fuzzy graph and its alpha cuts                                      *)
(***************************************************************************)
FuzzyVertices == {0, 1, 2}

\* the membership degrees of the vertices and edges, in tenths
Degrees == {5, 10}

\* the thresholds of the cuts, in tenths
Thresholds == {0, 5, 10}

\* connect stops at MaxFuzzyEdges stored edges
MaxFuzzyEdges == 2

\* a fuzzy graph built from its vertices, each with a degree, and no edge
InitFuzzy ==
    /\ directed \in BOOLEAN /\ \E vs \in SUBSET FuzzyVertices : \E mu \in [vs -> Degrees] : fV = {FuzzyElement(v, mu[v]) : v \in vs}
    /\ fE = {} /\ V = {} /\ E = {} /\ wt = <<>> /\ S = {} /\ pre = {} /\ op = Call("init", None, None) /\ err = "none" /\ ret = NoRet

FuzzyStep(r, value, call) == /\ fV' = r.G.V /\ fE' = r.G.E /\ err' = r.err /\ ret' = value /\ op' = call /\ pre' = fE /\ UNCHANGED <<directed, V, E, wt, S>>

FuzzyConnect == \E t \in FuzzyVertices, h \in FuzzyVertices, mu \in Degrees : Cardinality(fE) < MaxFuzzyEdges /\ FuzzyStep(fuzzy_connect(FuzzySelf, t, h, mu), NoRet, Call("connect", GraphEdge(t, h), mu))

Alpha == \E a \in Thresholds : FuzzyStep([G |-> FuzzySelf, err |-> alpha(FuzzySelf, a).err], alpha(FuzzySelf, a).G, Call("alpha", a, None))

Salpha == \E a \in Thresholds : FuzzyStep([G |-> FuzzySelf, err |-> salpha(FuzzySelf, a).err], salpha(FuzzySelf, a).G, Call("salpha", a, None))

FuzzyAddVertex == \E v \in FuzzyVertices, mu \in Degrees, replace \in BOOLEAN : FuzzyStep(add_fuzzy_vertex(FuzzySelf, v, mu, replace), NoRet, Call("add_fuzzy_vertex", v, mu))

FuzzyRemoveVertex == \E v \in FuzzyVertices : FuzzyStep(fuzzy_remove_vertex(FuzzySelf, v), NoRet, Call("remove_vertex", v, None))

FuzzyRemoveEdge == \E t \in FuzzyVertices \cup {None}, h \in FuzzyVertices \cup {None} : FuzzyStep(fuzzy_remove_edge(FuzzySelf, t, h), NoRet, Call("remove_edge", t, h))

Normalize == FuzzyStep(normalize(FuzzySelf), NoRet, Call("normalize", None, None))

NextFuzzy == FuzzyConnect \/ FuzzyAddVertex \/ FuzzyRemoveVertex \/ FuzzyRemoveEdge \/ Normalize \/ Alpha \/ Salpha

SpecFuzzy == InitFuzzy /\ [][NextFuzzy]_vars

(***************************************************************************)
(* Properties of the alpha cuts                                            *)
(***************************************************************************)
\* the vertices and edges whose degree meets (strict: exceeds) the threshold
Meets(mu, a, strict) == IF strict THEN mu > a ELSE mu >= a

CutVertices(a, strict) == {x.obj : x \in {y \in fV : Meets(y.mu, a, strict)}}

CutEdges(a, strict) == {x.obj : x \in {y \in fE : Meets(y.mu, a, strict) /\ y.obj[1] \in CutVertices(a, strict) /\ y.obj[2] \in CutVertices(a, strict)}}

\* C10: alpha(t) is the crisp graph of the vertices of degree >= t and of
\* the edges of degree >= t whose tail and head are both vertices of degree
\* >= t, and salpha(t) the same with > for >=; building it never fails;
\* salpha(t) is a subgraph of alpha(t); an edge of degree 0.5 between
\* vertices of degree 1.0 is in alpha(0.5) and not in salpha(0.5).
C10_AlphaCut ==
    /\ op.name = "alpha" => (err = "none" /\ ret = [directed |-> directed, V |-> CutVertices(op.a, FALSE), E |-> CutEdges(op.a, FALSE)])
    /\ op.name = "salpha" => (err = "none" /\ ret = [directed |-> directed, V |-> CutVertices(op.a, TRUE), E |-> CutEdges(op.a, TRUE)] /\ alpha(FuzzySelf, op.a).err = "none" /\ issubgraph(ret, alpha(FuzzySelf, op.a).G))
    /\ \A x \in fE : (x.mu = 5 /\ FuzzyElement(x.obj[1], 10) \in fV /\ FuzzyElement(x.obj[2], 10) \in fV) => (x.obj \in alpha(FuzzySelf, 5).G.E /\ x.obj \notin salpha(FuzzySelf, 5).G.E)

\* alpha(0.5) kept an edge of degree 0.5 between vertices of degree 1.0, in
\* a graph that holds another edge
C10_Witness == op.name = "alpha" /\ op.a = 5 /\ Cardinality(fE) = 2 /\ \E x \in fE : x.mu = 5 /\ FuzzyElement(x.obj[1], 10) \in fV /\ FuzzyElement(x.obj[2], 10) \in fV /\ x.obj \in ret.E

====
